---- MODULE Spec2Model ----
(***************************************************************************)
(* Credit ledger of server.js: the users table (credits, age,             *)
(* last_recharge_date), the transactions table, and the two handlers that  *)
(* write them: POST /auth/login (automatic recharge) and POST /ai/generate *)
(* (balance check, external generation call, debit transaction).          *)
(* Every await of a handler is one step, taken when the awaited promise    *)
(* settles, so concurrent requests interleave exactly where the event loop *)
(* lets them.  The database is PostgreSQL at its default isolation (READ   *)
(* COMMITTED): writes of an open transaction are invisible to others, an   *)
(* UPDATE holds the row lock until COMMIT or ROLLBACK and re-reads the     *)
(* committed row once it has the lock.                                     *)
(***************************************************************************)
EXTENDS Integers, Sequences, FiniteSets, TLC

\* ---------------------------------------------------------------- bounds
NumReqs == 2        \* requests in one run
TicksPerDay == 2    \* clock resolution: ticks in the 1000 * 60 * 60 * 24 ms of a day

\* ------------------------------------------------------ program constants
RechargeAmount == 100      \* UPDATE users SET credits = 100
WindowSenior == 180        \* age > 60
WindowDefault == 365       \* age <= 60
SeniorAge == 60

\* ------------------------------------------------------------ input sets
Reqs == 1..NumReqs
Users == {1}               \* ids with a row in users
NoRow == 2                 \* an id (or e-mail) with no row in users
Ages == {60, 70}
Grants == {100, 20}        \* credits of a freshly registered account
Costs == {60, 0, -10}      \* req.body.cost
\* the instants the clock visits: registration, the last tick before day
\* 180, midnight of day 180, of day 181 and of day 365
Instants == {0, WindowSenior * TicksPerDay - 1, WindowSenior * TicksPerDay,
             (WindowSenior + 1) * TicksPerDay, WindowDefault * TicksPerDay}

VARIABLES
    credits,        \* users.credits, committed value, per user id
    lastRecharge,   \* users.last_recharge_date, in days, per user id
    age,            \* users.age
    grant,          \* users.credits at registration
    transactions,   \* the transactions table, in insertion order
    now,            \* the clock (new Date()), in ticks
    rowLock,        \* per user id: the request whose open transaction wrote the row, or 0
    held,           \* requests holding a pool client (pool.connect .. release)
    apiCalls,       \* requests that invoked the external generation API
    pc,             \* per request: the await it is suspended at; "done" once
                    \* answered, "hung" when left without response, and after
                    \* the exit of the process "dbcommit" / "dbupdate" (statement
                    \* with the database), "applied" (executed) or "dead"
    kind,           \* per request: "gen", "login" or "none"
    acct,           \* per request: req.user.id / the account of the e-mail
    cost,           \* per request: req.body.cost
    pwdOk,          \* per request: whether the body holds the account's password
    userRes,        \* per request: userRes.rows[0].credits (line 96)
    user,           \* per request: the row read by the login (line 65)
    resp            \* per request: the response sent

vars == <<credits, lastRecharge, age, grant, transactions, now,
          rowLock, held, apiCalls, pc, kind, acct, cost, pwdOk, userRes, user,
          resp>>

dbVars == <<credits, lastRecharge, transactions>>
regVars == <<age, grant>>
reqIn == <<kind, acct, cost, pwdOk>>

NoResp == [status |-> 0, credits |-> 0, recharged |-> FALSE]
NoUserRow == [credits |-> 0, age |-> 0, last |-> 0]

\* ------------------------------------------------------------ pure parts
Abs(x) == IF x < 0 THEN -x ELSE x

\* Math.ceil(n / d) for n >= 0, d > 0
CeilDiv(n, d) == (n + d - 1) \div d

\* line 69-70: last is midnight of last_recharge_date, today is the clock
DiffDays(today, lastDay) == CeilDiv(Abs(today - lastDay * TicksPerDay), TicksPerDay)

\* line 74 with the senior bracket starting at 60
RechargeDueFromSixty(userAge, diffDays) ==
    \/ (userAge >= SeniorAge /\ diffDays >= WindowSenior)
    \/ (userAge < SeniorAge /\ diffDays >= WindowDefault)

\* line 74
RechargeDue(userAge, diffDays) ==
    \/ (userAge > SeniorAge /\ diffDays >= WindowSenior)
    \/ (userAge <= SeniorAge /\ diffDays >= WindowDefault)

\* CURRENT_DATE of the database
CurrentDate == now \div TicksPerDay

\* line 97 with the operands exchanged
InsufficientSwapped(balance, c) == c < balance

\* line 97
Insufficient(balance, c) == balance < c

\* line 126: SET credits = credits - $1
DebitedCredits(balance, c) == balance - c

\* line 127 with the amount not negated
UsageRecordUnsigned(uid, c) == [user_id |-> uid, amount |-> c, type |-> "usage"]

\* line 127: the row inserted
UsageRecord(uid, c) == [user_id |-> uid, amount |-> -c, type |-> "usage"]

\* line 130
NewCredits(readCredits, c) == readCredits - c

RECURSIVE SumAmounts(_, _)
SumAmounts(txs, uid) ==
    IF txs = <<>> THEN 0
    ELSE (IF Head(txs).user_id = uid THEN Head(txs).amount ELSE 0)
         + SumAmounts(Tail(txs), uid)

UsageOf(uid) == {i \in 1..Len(transactions) :
                    transactions[i].user_id = uid /\ transactions[i].type = "usage"}

\* ------------------------------------------------------------------ Init
Init ==
    /\ grant \in [Users -> Grants]
    /\ credits = grant
    /\ lastRecharge = [u \in Users |-> 0]
    /\ age \in [Users -> Ages]
    /\ transactions = <<>>
    /\ now = 0
    /\ rowLock = [u \in Users |-> 0]
    /\ held = {}
    /\ apiCalls = {}
    /\ pc = [r \in Reqs |-> "idle"]
    /\ kind = [r \in Reqs |-> "none"]
    /\ acct = [r \in Reqs |-> NoRow]
    /\ cost = [r \in Reqs |-> 0]
    /\ pwdOk = [r \in Reqs |-> FALSE]
    /\ userRes = [r \in Reqs |-> 0]
    /\ user = [r \in Reqs |-> NoUserRow]
    /\ resp = [r \in Reqs |-> NoResp]

\* ----------------------------------------------------------- environment
\* time passes
Advance ==
    /\ \E t \in Instants : t > now /\ now' = t
    /\ UNCHANGED <<dbVars, regVars, rowLock, held, apiCalls, pc, reqIn, userRes,
                   user, resp>>

\* request r ends with a response
Finish(r, status, bal, flag) ==
    /\ pc' = [pc EXCEPT ![r] = "done"]
    /\ resp' = [resp EXCEPT ![r] = [status |-> status, credits |-> bal, recharged |-> flag]]

\* ------------------------------------------------------ POST /ai/generate
\* line 92-93: the request arrives with a verified token
GenArrive(r) ==
    /\ pc[r] = "idle"
    /\ \A q \in Reqs : q < r => pc[q] # "idle"
    /\ \E a \in Users \cup {NoRow}, c \in Costs :
          /\ a = NoRow => c = 0     \* without a row line 97 throws before reading cost
          /\ kind' = [kind EXCEPT ![r] = "gen"]
          /\ acct' = [acct EXCEPT ![r] = a]
          /\ cost' = [cost EXCEPT ![r] = c]
    /\ pc' = [pc EXCEPT ![r] = "check"]
    /\ UNCHANGED <<dbVars, regVars, now, rowLock, held, apiCalls, pwdOk, userRes,
                   user, resp>>

\* line 96-97: the SELECT resolves and the balance is compared with the cost
GenCheck(r) ==
    /\ pc[r] = "check"
    /\ acct[r] \in Users
    /\ userRes' = [userRes EXCEPT ![r] = credits[acct[r]]]
    /\ IF Insufficient(credits[acct[r]], cost[r])
         THEN Finish(r, 402, 0, FALSE)
         ELSE /\ pc' = [pc EXCEPT ![r] = "import"]
              /\ UNCHANGED resp
    /\ UNCHANGED <<dbVars, regVars, now, rowLock, held, apiCalls, reqIn, user>>

\* line 96-97, outside any try: the SELECT rejects, or rows[0] is undefined;
\* the handler's promise rejects.  A router that ignores the promise of a
\* handler (express 4) sends no response; a runtime that only warns about
\* the unhandled rejection (node before 15) keeps serving
GenCheckThrow(r) ==
    /\ pc[r] = "check"
    /\ pc' = [pc EXCEPT ![r] = "hung"]
    /\ UNCHANGED <<dbVars, regVars, now, rowLock, held, apiCalls, reqIn, userRes,
                   user, resp>>

\* line 96-97, outside any try, under a router that forwards the rejection
\* of a handler to its default error handler (express 5): a 500 is sent
GenCheckThrowForwarded(r) ==
    /\ pc[r] = "check"
    /\ Finish(r, 500, 0, FALSE)
    /\ UNCHANGED <<dbVars, regVars, now, rowLock, held, apiCalls, reqIn, userRes, user>>

\* where the exit of the process leaves a request: one that was answered
\* stays answered; a COMMIT or a recharge UPDATE already sent is with the
\* database; every other request is lost, as are those not yet accepted
AfterExit(at) ==
    CASE at = "done"     -> "done"
      [] at = "commit"   -> "dbcommit"
      [] at = "recharge" -> "dbupdate"
      [] OTHER           -> "dead"

\* line 96-97, outside any try, under a router that ignores the promise of
\* a handler and a runtime that ends the process on an unhandled rejection
\* (node 15 and later): the process exits with code 1.  No request in
\* flight is answered, the pool and its sessions are gone, and the database
\* rolls back every transaction whose COMMIT it has not received
GenCheckCrash(r) ==
    /\ pc[r] = "check"
    /\ pc' = [q \in Reqs |-> AfterExit(pc[q])]
    /\ rowLock' = [u \in Users |->
                     IF rowLock[u] # 0 /\ pc[rowLock[u]] = "commit" THEN rowLock[u] ELSE 0]
    /\ held' = {}
    /\ UNCHANGED <<dbVars, regVars, now, apiCalls, reqIn, userRes, user, resp>>

\* line 9, 101: the import of node-fetch resolves and the request is sent to
\* the external API
GenImport(r) ==
    /\ pc[r] = "import"
    /\ apiCalls' = apiCalls \cup {r}
    /\ pc' = [pc EXCEPT ![r] = "fetch"]
    /\ UNCHANGED <<dbVars, regVars, now, rowLock, held, reqIn, userRes, user, resp>>

\* line 9, 101, 137-139: the import rejects; nothing was sent
GenImportFail(r) ==
    /\ pc[r] = "import"
    /\ Finish(r, 500, 0, FALSE)
    /\ UNCHANGED <<dbVars, regVars, now, rowLock, held, apiCalls, reqIn, userRes, user>>

\* line 101: the external API answers
GenFetch(r) ==
    /\ pc[r] = "fetch"
    /\ pc' = [pc EXCEPT ![r] = "json"]
    /\ UNCHANGED <<dbVars, regVars, now, rowLock, held, apiCalls, reqIn, userRes,
                   user, resp>>

\* line 101, 137-139: the call rejects
GenFetchFail(r) ==
    /\ pc[r] = "fetch"
    /\ Finish(r, 500, 0, FALSE)
    /\ UNCHANGED <<dbVars, regVars, now, rowLock, held, apiCalls, reqIn, userRes, user>>

\* line 107-123: the body is read, it holds text, pool.connect is called
GenJson(r) ==
    /\ pc[r] = "json"
    /\ pc' = [pc EXCEPT ![r] = "connect"]
    /\ UNCHANGED <<dbVars, regVars, now, rowLock, held, apiCalls, reqIn, userRes,
                   user, resp>>

\* line 107-110, 137-139: response.json() rejects, or the body holds no text
GenJsonFail(r) ==
    /\ pc[r] = "json"
    /\ Finish(r, 500, 0, FALSE)
    /\ UNCHANGED <<dbVars, regVars, now, rowLock, held, apiCalls, reqIn, userRes, user>>

\* line 123, 125: a client is taken from the pool and BEGIN is sent
GenConnect(r) ==
    /\ pc[r] = "connect"
    /\ held' = held \cup {r}
    /\ pc' = [pc EXCEPT ![r] = "begin"]
    /\ UNCHANGED <<dbVars, regVars, now, rowLock, apiCalls, reqIn, userRes, user, resp>>

\* line 123, 137-139: pool.connect rejects
GenConnectFail(r) ==
    /\ pc[r] = "connect"
    /\ Finish(r, 500, 0, FALSE)
    /\ UNCHANGED <<dbVars, regVars, now, rowLock, held, apiCalls, reqIn, userRes, user>>

\* line 125-126: BEGIN is answered and the UPDATE is sent
GenBegin(r) ==
    /\ pc[r] = "begin"
    /\ pc' = [pc EXCEPT ![r] = "update"]
    /\ UNCHANGED <<dbVars, regVars, now, rowLock, held, apiCalls, reqIn, userRes,
                   user, resp>>

\* line 126-127: the UPDATE has waited for the row lock and written inside
\* the transaction; the INSERT is sent
GenUpdate(r) ==
    /\ pc[r] = "update"
    /\ rowLock[acct[r]] = 0
    /\ rowLock' = [rowLock EXCEPT ![acct[r]] = r]
    /\ pc' = [pc EXCEPT ![r] = "insert"]
    /\ UNCHANGED <<dbVars, regVars, now, held, apiCalls, reqIn, userRes, user, resp>>

\* line 127-128: the INSERT has written inside the transaction; COMMIT is sent
GenInsert(r) ==
    /\ pc[r] = "insert"
    /\ pc' = [pc EXCEPT ![r] = "commit"]
    /\ UNCHANGED <<dbVars, regVars, now, rowLock, held, apiCalls, reqIn, userRes,
                   user, resp>>

\* line 126, 128: what the committed transaction leaves in users.credits
CommitCredits(r) == [credits EXCEPT ![acct[r]] = DebitedCredits(@, cost[r])]

\* line 127 run outside the transaction and lost
CommitTransactionsDropped(r) == transactions

\* line 127, 128: what the committed transaction leaves in transactions
CommitTransactions(r) == Append(transactions, UsageRecord(acct[r], cost[r]))

\* line 125-128, 131-132: BEGIN, UPDATE, INSERT or COMMIT rejects; control
\* goes to the catch of line 131, which sends ROLLBACK.  The handler cannot
\* tell whether the database executed the statement whose answer it lost:
\* the statement had no effect, or the UPDATE took the row, or the COMMIT
\* made both writes visible and freed the row
GenTxFail(r) ==
    /\ pc[r] \in {"begin", "update", "insert", "commit"}
    /\ \/ UNCHANGED <<dbVars, rowLock>>
       \/ /\ pc[r] = "update"
          /\ rowLock[acct[r]] = 0
          /\ rowLock' = [rowLock EXCEPT ![acct[r]] = r]
          /\ UNCHANGED dbVars
       \/ /\ pc[r] = "commit"
          /\ credits' = CommitCredits(r)
          /\ transactions' = CommitTransactions(r)
          /\ rowLock' = [rowLock EXCEPT ![acct[r]] = 0]
          /\ UNCHANGED lastRecharge
    /\ pc' = [pc EXCEPT ![r] = "rollback"]
    /\ UNCHANGED <<regVars, now, held, apiCalls, reqIn, userRes, user, resp>>

\* line 128-130, 135: COMMIT makes both writes visible and frees the row; the
\* success response is sent and the client goes back to the pool
GenCommit(r) ==
    /\ pc[r] = "commit"
    /\ credits' = CommitCredits(r)
    /\ transactions' = CommitTransactions(r)
    /\ rowLock' = [rowLock EXCEPT ![acct[r]] = 0]
    /\ held' = held \ {r}
    /\ Finish(r, 200, NewCredits(userRes[r], cost[r]), FALSE)
    /\ UNCHANGED <<lastRecharge, regVars, now, apiCalls, reqIn, userRes, user>>

\* line 132: what the rolled back transaction leaves in users.credits
RollbackCredits(r) == credits

\* line 135 reached only from the try block, not from the catch
HeldAfterRollbackLeaked(r) == held

\* line 134-135: the finally after the catch has thrown
HeldAfterRollback(r) == held \ {r}

\* line 132-139: a transaction still open ends without effect (ROLLBACK, or
\* the server dropping the broken session) and its row is freed; the client
\* is released, the error reaches the outer catch
GenRollback(r) ==
    /\ pc[r] = "rollback"
    /\ rowLock' = [u \in Users |-> IF rowLock[u] = r THEN 0 ELSE rowLock[u]]
    /\ held' = HeldAfterRollback(r)
    /\ credits' = RollbackCredits(r)
    /\ Finish(r, 500, 0, FALSE)
    /\ UNCHANGED <<lastRecharge, transactions, regVars, now, apiCalls, reqIn, userRes, user>>

\* the process has exited with the COMMIT of r sent (line 128): the
\* database executes it
DbLostCommit(r) ==
    /\ pc[r] = "dbcommit"
    /\ credits' = CommitCredits(r)
    /\ transactions' = CommitTransactions(r)
    /\ rowLock' = [rowLock EXCEPT ![acct[r]] = 0]
    /\ pc' = [pc EXCEPT ![r] = "applied"]
    /\ UNCHANGED <<lastRecharge, regVars, now, held, apiCalls, reqIn, userRes, user, resp>>

\* the process has exited before the COMMIT of r reached the database: the
\* session ends and the transaction is rolled back
DbLostCommitDrop(r) ==
    /\ pc[r] = "dbcommit"
    /\ rowLock' = [rowLock EXCEPT ![acct[r]] = 0]
    /\ pc' = [pc EXCEPT ![r] = "dead"]
    /\ UNCHANGED <<dbVars, regVars, now, held, apiCalls, reqIn, userRes, user, resp>>

\* -------------------------------------------------------- POST /auth/login
\* line 59-60
LoginArrive(r) ==
    /\ pc[r] = "idle"
    /\ \A q \in Reqs : q < r => pc[q] # "idle"
    /\ \E a \in Users \cup {NoRow}, ok \in BOOLEAN :
          /\ kind' = [kind EXCEPT ![r] = "login"]
          /\ acct' = [acct EXCEPT ![r] = a]
          /\ pwdOk' = [pwdOk EXCEPT ![r] = ok /\ a \in Users]
    /\ pc' = [pc EXCEPT ![r] = "select"]
    /\ UNCHANGED <<dbVars, regVars, now, rowLock, held, apiCalls, cost, userRes,
                   user, resp>>

\* line 62-65
LoginSelect(r) ==
    /\ pc[r] = "select"
    /\ IF acct[r] \in Users
         THEN /\ user' = [user EXCEPT ![r] = [credits |-> credits[acct[r]],
                                              age |-> age[acct[r]],
                                              last |-> lastRecharge[acct[r]]]]
              /\ pc' = [pc EXCEPT ![r] = "compare"]
              /\ UNCHANGED resp
         ELSE /\ Finish(r, 400, 0, FALSE)
              /\ UNCHANGED user
    /\ UNCHANGED <<dbVars, regVars, now, rowLock, held, apiCalls, reqIn, userRes>>

\* line 62, 85-88: the SELECT rejects
LoginSelectFail(r) ==
    /\ pc[r] = "select"
    /\ Finish(r, 500, 0, FALSE)
    /\ UNCHANGED <<dbVars, regVars, now, rowLock, held, apiCalls, reqIn, userRes, user>>

\* line 66 with the comparison's result ignored
PasswordMatchesAlways(r) == TRUE

\* line 66: bcrypt.compare(password, user.password_hash)
PasswordMatches(r) == pwdOk[r]

\* line 66-74, 80-83: bcrypt.compare resolves; the recharge rule is evaluated
\* on the row read at line 62
LoginCompare(r) ==
    /\ pc[r] = "compare"
    /\ IF ~PasswordMatches(r)
         THEN Finish(r, 403, 0, FALSE)
         ELSE IF RechargeDue(user[r].age, DiffDays(now, user[r].last))
                THEN /\ pc' = [pc EXCEPT ![r] = "recharge"]
                     /\ UNCHANGED resp
                ELSE Finish(r, 200, user[r].credits, FALSE)
    /\ UNCHANGED <<dbVars, regVars, now, rowLock, held, apiCalls, reqIn, userRes, user>>

\* line 66, 85-88: bcrypt.compare rejects (the body holds no password, or
\* one that is not a string)
LoginCompareFail(r) ==
    /\ pc[r] = "compare"
    /\ ~pwdOk[r]
    /\ Finish(r, 500, 0, FALSE)
    /\ UNCHANGED <<dbVars, regVars, now, rowLock, held, apiCalls, reqIn, userRes, user>>

\* line 75: what the recharge leaves in users.credits
RechargeCredits(r) == [credits EXCEPT ![acct[r]] = RechargeAmount]

\* line 75 without last_recharge_date = CURRENT_DATE
RechargeDateKept(r) == lastRecharge

\* line 75: what the recharge leaves in users.last_recharge_date
RechargeDate(r) == [lastRecharge EXCEPT ![acct[r]] = CurrentDate]

\* line 75: what the recharge leaves in transactions (there is no INSERT)
RechargeTransactions(r) == transactions

\* line 75-81: the autocommit UPDATE waits for the row lock; then the response
LoginRecharge(r) ==
    /\ pc[r] = "recharge"
    /\ rowLock[acct[r]] = 0
    /\ credits' = RechargeCredits(r)
    /\ lastRecharge' = RechargeDate(r)
    /\ transactions' = RechargeTransactions(r)
    /\ Finish(r, 200, RechargeAmount, TRUE)
    /\ UNCHANGED <<regVars, now, rowLock, held, apiCalls, reqIn, userRes, user>>

\* line 75, 85-88: the UPDATE rejects; the database has not executed it, or
\* has executed it and the answer is lost
LoginRechargeFail(r) ==
    /\ pc[r] = "recharge"
    /\ \/ UNCHANGED dbVars
       \/ /\ rowLock[acct[r]] = 0
          /\ credits' = RechargeCredits(r)
          /\ lastRecharge' = RechargeDate(r)
          /\ transactions' = RechargeTransactions(r)
    /\ Finish(r, 500, 0, FALSE)
    /\ UNCHANGED <<regVars, now, rowLock, held, apiCalls, reqIn, userRes, user>>

\* the process has exited with the UPDATE of line 75 sent: the database
\* executes it, once the row is free
DbLostUpdate(r) ==
    /\ pc[r] = "dbupdate"
    /\ rowLock[acct[r]] = 0
    /\ credits' = RechargeCredits(r)
    /\ lastRecharge' = RechargeDate(r)
    /\ transactions' = RechargeTransactions(r)
    /\ pc' = [pc EXCEPT ![r] = "applied"]
    /\ UNCHANGED <<regVars, now, rowLock, held, apiCalls, reqIn, userRes, user, resp>>

\* the process has exited before the UPDATE of line 75 reached the database
DbLostUpdateDrop(r) ==
    /\ pc[r] = "dbupdate"
    /\ pc' = [pc EXCEPT ![r] = "dead"]
    /\ UNCHANGED <<dbVars, regVars, now, rowLock, held, apiCalls, reqIn, userRes,
                   user, resp>>

\* ------------------------------------------------------------------ Next
Next ==
    \/ Advance
    \/ \E r \in Reqs : GenArrive(r)
    \/ \E r \in Reqs : GenCheck(r)
    \/ \E r \in Reqs : GenCheckThrow(r)
    \/ \E r \in Reqs : GenCheckThrowForwarded(r)
    \/ \E r \in Reqs : GenCheckCrash(r)
    \/ \E r \in Reqs : GenImport(r)
    \/ \E r \in Reqs : GenImportFail(r)
    \/ \E r \in Reqs : GenFetch(r)
    \/ \E r \in Reqs : GenFetchFail(r)
    \/ \E r \in Reqs : GenJson(r)
    \/ \E r \in Reqs : GenJsonFail(r)
    \/ \E r \in Reqs : GenConnect(r)
    \/ \E r \in Reqs : GenConnectFail(r)
    \/ \E r \in Reqs : GenBegin(r)
    \/ \E r \in Reqs : GenUpdate(r)
    \/ \E r \in Reqs : GenInsert(r)
    \/ \E r \in Reqs : GenTxFail(r)
    \/ \E r \in Reqs : GenCommit(r)
    \/ \E r \in Reqs : GenRollback(r)
    \/ \E r \in Reqs : DbLostCommit(r)
    \/ \E r \in Reqs : DbLostCommitDrop(r)
    \/ \E r \in Reqs : LoginArrive(r)
    \/ \E r \in Reqs : LoginSelect(r)
    \/ \E r \in Reqs : LoginSelectFail(r)
    \/ \E r \in Reqs : LoginCompare(r)
    \/ \E r \in Reqs : LoginCompareFail(r)
    \/ \E r \in Reqs : LoginRecharge(r)
    \/ \E r \in Reqs : LoginRechargeFail(r)
    \/ \E r \in Reqs : DbLostUpdate(r)
    \/ \E r \in Reqs : DbLostUpdateDrop(r)

Spec == Init /\ [][Next]_vars

\* the steps of request r that the database and the event loop carry out
\* once r holds a pool client, and those the database is left with when the
\* process has exited
TxStep(r) ==
    \/ GenBegin(r) \/ GenUpdate(r) \/ GenInsert(r) \/ GenCommit(r) \/ GenRollback(r)
    \/ DbLostCommit(r) \/ DbLostCommitDrop(r)

\* every query sent is answered and every continuation is run
FairSpec == Spec /\ \A r \in Reqs : WF_vars(TxStep(r))

\* ================================================================ claims
IsGen(r) == kind[r] = "gen"
Succeeded(r) == IsGen(r) /\ resp[r].status = 200
Denied(r) == IsGen(r) /\ resp[r].status = 402

\* the step in which the debit of request r commits and r is answered 200
DebitStep(r) == IsGen(r) /\ pc[r] = "commit" /\ pc'[r] = "done" /\ resp'[r].status = 200

\* the step in which the transaction of request r commits: answered 200,
\* or executed by the database with the answer lost (the row is freed as r
\* goes to its catch), or executed after the process has exited
CommitStep(r) ==
    \/ DebitStep(r)
    \/ IsGen(r) /\ pc[r] = "commit" /\ pc'[r] = "rollback" /\ rowLock'[acct[r]] # r
    \/ IsGen(r) /\ pc[r] = "dbcommit" /\ pc'[r] = "applied"

\* the step in which the recharge of a login is applied: answered with the
\* flag, or written with the answer lost, or executed by the database after
\* the process has exited
RechargeStep(r) ==
    \/ pc[r] = "recharge" /\ resp'[r].recharged
    \/ /\ pc[r] = "recharge" /\ resp'[r].status = 500
       /\ <<credits, lastRecharge>>' # <<credits, lastRecharge>>
    \/ pc[r] = "dbupdate" /\ pc'[r] = "applied"

\* the step in which request r leaves the balance check of line 96-97 with a
\* balance read
CheckStep(r) == pc[r] = "check" /\ pc'[r] \in {"import", "done"} /\ resp'[r].status # 500

\* C1: the stored balance of every account is never negative, in any
\* reachable state and under every interleaving of consumption requests.
C1_BalanceNeverNegative == \A u \in Users : credits[u] >= 0

\* C2: when every request of the run is a consumption of the same positive
\* cost a on one account with starting balance b, and each has ended with
\* success or InsufficientCredits, exactly b \div a of them succeeded, the
\* final balance is b - a * (b \div a) and exactly b \div a usage records exist.
C2_ConcurrentDebitsSerialise ==
    \A u \in Users : \A a \in Costs :
        (/\ a > 0
         /\ \A r \in Reqs : /\ IsGen(r) /\ acct[r] = u /\ cost[r] = a
                            /\ pc[r] = "done" /\ resp[r].status \in {200, 402})
        => /\ Cardinality({r \in Reqs : Succeeded(r)}) = grant[u] \div a
           /\ credits[u] = grant[u] - a * (grant[u] \div a)
           /\ Cardinality(UsageOf(u)) = grant[u] \div a

\* C3: in every committed state each account's credits equal its starting
\* grant plus the sum of the amounts of its transactions rows.
C3_BalanceEqualsLedger ==
    \A u \in Users : credits[u] = grant[u] + SumAmounts(transactions, u)

\* C4: the decrement of credits and the usage record of one consumption are
\* one indivisible unit: in every step, a record is added only together with
\* the change of its account's credits by the record's amount, and credits
\* change (other than by a login's recharge) only together with the record
\* of that change; a transaction that fails or is rolled back leaves neither.
C4_DebitAtomic ==
    [][/\ transactions' # transactions =>
            /\ Len(transactions') = Len(transactions) + 1
            /\ SubSeq(transactions', 1, Len(transactions)) = transactions
            /\ LET rec == transactions'[Len(transactions')]
               IN  /\ rec.type = "usage"
                   /\ rec.user_id \in Users
                   /\ credits'[rec.user_id] = credits[rec.user_id] + rec.amount
       /\ \A u \in Users :
            (credits'[u] # credits[u] /\ ~ \E r \in Reqs : RechargeStep(r)) =>
                transactions' = Append(transactions,
                    [user_id |-> u, amount |-> credits'[u] - credits[u], type |-> "usage"])
       /\ \A r \in Reqs :
            (/\ pc[r] \in {"begin", "update", "insert", "commit", "rollback", "dbcommit"}
             /\ pc'[r] # pc[r] /\ ~CommitStep(r)) =>
                /\ credits' = credits
                /\ transactions' = transactions
      ]_vars

\* C4 witness: one debit has committed while another request's transaction,
\* having written the row, failed and awaits its rollback.
C4_Witness ==
    \E r, q \in Reqs :
        /\ Succeeded(r) /\ cost[r] > 0
        /\ pc[q] = "rollback" /\ rowLock[acct[q]] = q /\ acct[q] = acct[r]
        /\ Cardinality(UsageOf(acct[r])) = 1

\* C5: the debit is committed before the external generation API is
\* invoked, and the API is invoked only if the debit succeeded: in the step
\* in which a request of positive cost invokes the API, the usage record of
\* its debit is already in the ledger.
C5_DebitBeforeExternalCall ==
    [][\A r \in Reqs :
          (cost[r] > 0 /\ r \notin apiCalls /\ r \in apiCalls') =>
              \E i \in 1..Len(transactions) :
                  transactions[i] = UsageRecord(acct[r], cost[r])]_vars

\* C6: a consumption whose cost exceeds the balance read is denied with 402
\* before any external side effect: the API is never called for it, and the
\* step that denies it leaves credits and transactions unchanged.
C6_DeniedBeforeSideEffect ==
    /\ [](\A r \in Reqs : Denied(r) => (r \notin apiCalls /\ r \notin held /\ pc[r] = "done"))
    /\ [][\A r \in Reqs :
            (CheckStep(r) /\ credits[acct[r]] < cost[r]) =>
                /\ resp'[r].status = 402
                /\ pc'[r] = "done"
                /\ apiCalls' = apiCalls
                /\ credits' = credits
                /\ transactions' = transactions
                /\ rowLock' = rowLock]_vars
    /\ [][\A r \in Reqs : Denied(r) =>
            (resp'[r] = resp[r] /\ pc'[r] = pc[r])]_vars

\* C6 witness: balance 20, cost 60: denied, balance still 20, no record.
C6_Witness ==
    \E r \in Reqs : /\ Denied(r) /\ cost[r] = 60 /\ userRes[r] = 20
                    /\ credits[acct[r]] = 20 /\ transactions = <<>>

\* C7: exactly-once debit: the step that answers a consumption of cost c
\* with success decreases the account's credits by exactly c and appends
\* exactly one usage record of amount -c; records are appended only by the
\* step in which one request's transaction commits, and a request whose
\* transaction has committed never commits again: answered or settled it
\* takes no further step, and from its catch it only ends.
C7_ExactlyOnceDebit ==
    [][/\ \A r \in Reqs :
            (~Succeeded(r) /\ Succeeded(r)') =>
                /\ DebitStep(r)
                /\ credits'[acct[r]] = credits[acct[r]] - cost[r]
                /\ transactions' = Append(transactions,
                      [user_id |-> acct[r], amount |-> -cost[r], type |-> "usage"])
       /\ transactions' # transactions =>
            Cardinality({r \in Reqs : CommitStep(r)}) = 1
       /\ \A r \in Reqs :
            (Succeeded(r) \/ (IsGen(r) /\ pc[r] = "applied")) =>
                (pc'[r] = pc[r] /\ resp'[r] = resp[r])
       /\ \A r \in Reqs :
            pc[r] = "rollback" => (~CommitStep(r) /\ pc'[r] \in {"rollback", "done", "dead"})
      ]_vars

\* C7 witness: balance 100, cost 60: success, balance 40, one record of -60.
C7_Witness ==
    \E r \in Reqs : /\ Succeeded(r) /\ cost[r] = 60 /\ grant[acct[r]] = 100
                    /\ credits[acct[r]] = 40
                    /\ transactions = <<[user_id |-> acct[r], amount |-> -60, type |-> "usage"]>>

\* C8: the new_credits returned by a successful consumption equals the
\* balance stored for the account right after that request's debit committed.
C8_ReturnedBalanceIsStored ==
    [][\A r \in Reqs : DebitStep(r) => resp'[r].credits = credits'[acct[r]]]_vars

\* C9: a consumption with a non-positive cost is rejected before any write,
\* so it never succeeds and every usage record has a strictly negative amount.
C9_NonPositiveCostRejected ==
    /\ \A r \in Reqs : (IsGen(r) /\ cost[r] <= 0) => ~Succeeded(r)
    /\ \A i \in 1..Len(transactions) :
          transactions[i].type = "usage" => transactions[i].amount < 0

\* C10: a consumption on an account that is due for recharge, with stored
\* balance < cost <= 100, is authorized rather than denied.
C10_RechargeBeforeCheck ==
    [][\A r \in Reqs :
          (/\ CheckStep(r)
           /\ RechargeDue(age[acct[r]], DiffDays(now, lastRecharge[acct[r]]))
           /\ credits[acct[r]] < cost[r]
           /\ cost[r] <= RechargeAmount)
          => resp'[r].status # 402]_vars

IsLogin(r) == kind[r] = "login"

\* the window of an age, in days
WindowOf(a) == IF a > 60 THEN 180 ELSE 365

\* days from midnight of day lastDay to the clock, rounded up
ElapsedDays(lastDay) ==
    LET d == IF now >= lastDay * TicksPerDay THEN now - lastDay * TicksPerDay
                                             ELSE lastDay * TicksPerDay - now
    IN  IF d % TicksPerDay = 0 THEN d \div TicksPerDay ELSE d \div TicksPerDay + 1

\* the step in which a login with the right password evaluates the rule
EvaluateStep(r) ==
    IsLogin(r) /\ pc[r] = "compare" /\ pc'[r] \in {"recharge", "done"} /\ pwdOk[r]

\* C11: on a successful login the recharge is undertaken iff elapsedDays >=
\* window, elapsedDays being the days between the clock and the last recharge
\* date read, rounded up, and window 180 for age > 60 and 365 otherwise (so
\* for age 60); the recharge sets credits to 100 and the last recharge date
\* to the current day and reports the flag; otherwise the login answers the
\* balance read with no flag.
C11_RechargeRule ==
    [][\A r \in Reqs :
          /\ EvaluateStep(r) =>
                /\ (pc'[r] = "recharge") <=> (ElapsedDays(user[r].last) >= WindowOf(user[r].age))
                /\ pc'[r] # "recharge" =>
                      resp'[r] = [status |-> 200, credits |-> user[r].credits, recharged |-> FALSE]
          /\ (pc[r] = "recharge" /\ resp'[r].status = 200) =>
                /\ credits'[acct[r]] = 100
                /\ lastRecharge'[acct[r]] = now \div TicksPerDay
                /\ resp'[r] = [status |-> 200, credits |-> 100, recharged |-> TRUE]
          /\ (~resp[r].recharged /\ resp'[r].recharged) => (IsLogin(r) /\ pc[r] = "recharge")
      ]_vars

\* C11 witness: age 60 at day 180 is answered without recharge, the balance
\* as it was.
C11_Witness ==
    \E r \in Reqs : /\ IsLogin(r) /\ resp[r].status = 200 /\ ~resp[r].recharged
                    /\ user[r].age = 60 /\ user[r].last = 0
                    /\ now = 180 * TicksPerDay
                    /\ credits[acct[r]] = grant[acct[r]] /\ lastRecharge[acct[r]] = 0

\* C12: a recharge advances the last recharge date so that the account is
\* no longer due: right after a recharge the rule does not hold of the row,
\* and a login that read a row already recharged at day L and recharged it
\* again was evaluated a full window (days rounded up) after L.  For age 70
\* and last recharge date 0, logins at day 180 and day 181 recharge once.
C12_RechargeIdempotent ==
    /\ [][\A r \in Reqs : RechargeStep(r) =>
            ~RechargeDue(age[acct[r]], DiffDays(now, lastRecharge'[acct[r]]))]_vars
    /\ [](\A r \in Reqs :
            (IsLogin(r) /\ resp[r].recharged /\ user[r].last > 0) =>
                now > (user[r].last + WindowOf(user[r].age) - 1) * TicksPerDay)
    /\ [](\A r, q \in Reqs :
            (/\ IsLogin(r) /\ IsLogin(q) /\ resp[r].recharged
             /\ user[q].age = 70 /\ user[q].last = 180 /\ pc[q] = "done"
             /\ now = 181 * TicksPerDay)
            => ~resp[q].recharged)

\* C12 witness: age 70, the first login recharged at day 180, the second,
\* at day 181, read the recharged row and did not recharge.
C12_Witness ==
    \E r, q \in Reqs :
        /\ IsLogin(r) /\ IsLogin(q) /\ resp[r].recharged
        /\ user[r].age = 70 /\ user[r].last = 0
        /\ user[q].last = 180 /\ resp[q].status = 200 /\ ~resp[q].recharged
        /\ now = 181 * TicksPerDay /\ lastRecharge[acct[q]] = 180

\* C13: under any interleaving, replenishment is applied once per window: a
\* request overwrites the balance with the replenishment amount only when
\* the account is due by the last recharge date stored at that moment.
C13_RechargeOncePerWindow ==
    [][\A r \in Reqs : RechargeStep(r) =>
          RechargeDue(age[acct[r]], DiffDays(now, lastRecharge[acct[r]]))]_vars

\* C14: whenever a recharge is applied, a 'recharge' record for the delta
\* between the new and the old balance is appended in the same step.
C14_RechargeRecorded ==
    [][\A r \in Reqs : RechargeStep(r) =>
          transactions' = Append(transactions,
              [user_id |-> acct[r], amount |-> credits'[acct[r]] - credits[acct[r]],
               type |-> "recharge"])]_vars

\* C15: a login evaluated on an account that is not due performs no write
\* (credits, last recharge date and records unchanged, no flag), and the
\* last recharge date changes only when a recharge is applied.
C15_NotDueNoWrite ==
    [][/\ \A r \in Reqs :
            (/\ EvaluateStep(r)
             /\ ~RechargeDue(age[acct[r]], DiffDays(now, lastRecharge[acct[r]])))
            => /\ pc'[r] = "done" /\ ~resp'[r].recharged
               /\ UNCHANGED dbVars
       /\ lastRecharge' # lastRecharge => \E r \in Reqs : RechargeStep(r)
      ]_vars

\* C16: every consumption that ends with 402 or 500 leaves credits and
\* transactions as they were: no step of a running server in which a
\* consumption of positive cost moves on without being answered 200 writes
\* the ledger, a response once sent is final, and a request answered holds
\* neither the row nor a client.
C16_NonSuccessNoCharge ==
    /\ [][\A r \in Reqs :
            /\ (/\ IsGen(r) /\ cost[r] > 0 /\ pc'[r] # pc[r] /\ resp'[r].status # 200
                /\ pc'[r] \notin {"dead", "dbcommit", "applied"}) => UNCHANGED dbVars
            /\ resp[r].status # 0 => (resp'[r] = resp[r] /\ pc'[r] = pc[r])]_vars
    /\ [](\A r \in Reqs :
            (IsGen(r) /\ resp[r].status \in {402, 500}) =>
                /\ pc[r] = "done" /\ r \notin held
                /\ \A u \in Users : rowLock[u] # r)

\* C17: a pool client is held only between pool.connect and the end of the
\* try/catch/finally; a request that has ended holds no client and no row;
\* and every client taken is eventually released: the number of held
\* clients returns to zero and stays there, and no row stays locked (a row
\* is locked without a client only while the database settles the COMMIT
\* it received from a process that has exited).
C17_ConnectionsReleased ==
    /\ [](\A r \in Reqs :
            /\ r \in held <=> pc[r] \in {"begin", "update", "insert", "commit", "rollback"}
            /\ (\E u \in Users : rowLock[u] = r) => (r \in held \/ pc[r] = "dbcommit"))
    /\ <>[](held = {} /\ \A u \in Users : rowLock[u] = 0)

\* C17 witness: a request whose transaction failed after writing the row
\* has been answered 500 and holds nothing.
C17_Witness ==
    \E r, q \in Reqs :
        /\ IsGen(r) /\ resp[r].status = 500 /\ r \in apiCalls /\ r \notin held
        /\ IsGen(q) /\ resp[q].status = 200 /\ held = {}
        /\ \A u \in Users : rowLock[u] = 0

\* a step of consumption r
GenStep(r) ==
    \/ GenCheck(r) \/ GenCheckThrow(r) \/ GenCheckThrowForwarded(r) \/ GenCheckCrash(r)
    \/ GenImport(r) \/ GenImportFail(r) \/ GenFetch(r) \/ GenFetchFail(r)
    \/ GenJson(r) \/ GenJsonFail(r) \/ GenConnect(r) \/ GenConnectFail(r)
    \/ GenBegin(r) \/ GenUpdate(r) \/ GenInsert(r) \/ GenTxFail(r)
    \/ GenCommit(r) \/ GenRollback(r) \/ DbLostCommit(r) \/ DbLostCommitDrop(r)

\* C18: every consumption terminates with a result reported to the caller:
\* a consumption that has arrived either has its response or can still
\* take a step towards it, also when the balance read of line 96 fails.
C18_EveryRequestAnswered ==
    \A r \in Reqs : IsGen(r) => (resp[r].status # 0 \/ ENABLED GenStep(r))

\* C19: applying a recharge never decreases the balance of the account.
C19_RechargeNeverDecreases ==
    [][\A r \in Reqs : RechargeStep(r) => credits'[acct[r]] >= credits[acct[r]]]_vars

\* C20: a login with an unknown e-mail or a wrong password never writes the
\* ledger: each of its steps leaves credits, last recharge date and records
\* unchanged, and it ends with 400, 403 or 500 and no recharge flag.
C20_FailedLoginNoWrite ==
    /\ [][\A r \in Reqs :
            (IsLogin(r) /\ ~pwdOk[r] /\ pc'[r] # pc[r]) =>
                /\ UNCHANGED dbVars
                /\ pc'[r] \in {"compare", "done", "dead"}]_vars
    /\ [](\A r \in Reqs :
            (IsLogin(r) /\ ~pwdOk[r] /\ pc[r] = "done") =>
                (resp[r].status \in {400, 403, 500} /\ ~resp[r].recharged))

\* C20 witness: a wrong password on an account of age 70 read at day 0 and
\* now 180 days old: answered 403, credits and date untouched.
C20_Witness ==
    \E r \in Reqs :
        /\ IsLogin(r) /\ resp[r].status = 403 /\ acct[r] \in Users
        /\ user[r].age = 70 /\ user[r].last = 0 /\ now = 180 * TicksPerDay
        /\ lastRecharge[acct[r]] = 0 /\ credits[acct[r]] = 20 /\ grant[acct[r]] = 20

====
